---- MODULE Spec2Model ----
(***************************************************************************)
(* Driver assignment: the pair cost model (compute_pairwise_cost) and the  *)
(* capacitated assignment (assign_drivers_to_orders) of assignment.py,     *)
(* run in sequence as app.py's main runs them.                             *)
(*                                                                         *)
(* Numbers.  The program computes in floating point; the model computes    *)
(* in integers, on inputs drawn from the integer points of the ranges the  *)
(* simulator and the sliders of app.py produce.                            *)
(*                                                                         *)
(* Positions.  Every driver and order lies on one meridian (equal          *)
(* loc_lon), loc_lat counted in units of one kilometre of arc.  For two    *)
(* such points the haversine formula gives R * |dlat| exactly, which is    *)
(* the absolute difference of the two loc_lat values in this unit.         *)
(*                                                                         *)
(* Identities.  driver_id and order_id are the positions 1..n of the rows  *)
(* in the two data frames (simulator.py names them D1.., O1..), so input   *)
(* order is index order.                                                   *)
(***************************************************************************)
EXTENDS Integers, Sequences, FiniteSets

VARIABLES drivers, orders, params, driver_capacity, costs, x,
          assignment_results, pc, prev

vars == <<drivers, orders, params, driver_capacity, costs, x,
          assignment_results, pc, prev>>

(***************************************************************************)
(* Program constants.                                                      *)
(***************************************************************************)
Sentinel == 999999
BreakPenalty == 50
BreakThreshold == 10
FairnessBaseline == 5
MaxRating == 5
IncentiveThreshold == 8
ShiftLength == 9
DefaultCapacity == 2
\* The simulator places everyone in a box of 0.1 degree of latitude by 0.1
\* degree of longitude around (12.9716, 77.5946): 11.2 km by 10.9 km, so no
\* two places are more than 16 km apart.
MaxDistKm == 16

(***************************************************************************)
(* Bounds of the model.                                                    *)
(***************************************************************************)
MaxDrivers == 2
MaxOrders == 2
MaxCap == 2

(***************************************************************************)
(* Arithmetic helpers.                                                     *)
(***************************************************************************)
Abs(n) == IF n < 0 THEN -n ELSE n

Max(a, b) == IF a >= b THEN a ELSE b

\* f[1] + ... + f[n]
RECURSIVE SumTo(_, _)
SumTo(n, f) == IF n = 0 THEN 0 ELSE f[n] + SumTo(n - 1, f)

(***************************************************************************)
(* The cost model.                                                         *)
(***************************************************************************)
haversine_distance(lat1, lat2) == Abs(lat2 - lat1)

\* InShift with the two ends of the shift left out.
InShiftExclusive(driver, current_time) ==
  driver.shift_start < current_time /\ current_time < driver.shift_end

InShift(driver, current_time) ==
  driver.shift_start <= current_time /\ current_time <= driver.shift_end

\* break_penalty disqualifying the driver instead of penalising.
break_penalty_disqualifying(driver) ==
  IF driver.next_break_in_minutes < BreakThreshold THEN Sentinel ELSE 0

break_penalty(driver) ==
  IF driver.next_break_in_minutes < BreakThreshold THEN BreakPenalty ELSE 0

fairness_penalty(driver, p) ==
  p.w_fairness * Max(0, driver.incentive_progress - FairnessBaseline)

time_cost(driver, order, p) ==
  p.w_time * haversine_distance(driver.loc_lat, order.loc_lat) * p.traffic_level

driver_cost(driver, p) == p.w_cost * driver.cost_factor

rating_penalty(driver, order, p) ==
  IF order.priority \in {"vip", "high_value"}
  THEN (IF driver.rating < MaxRating THEN p.w_rating * (MaxRating - driver.rating) ELSE 0)
  ELSE 0

\* incentive_adj with the threshold itself left out.
incentive_adj_above(driver, p) ==
  IF driver.incentive_progress > IncentiveThreshold THEN p.w_incentive ELSE 0

incentive_adj(driver, p) ==
  IF driver.incentive_progress >= IncentiveThreshold THEN p.w_incentive ELSE 0

surge_adjustment(order, p) == IF order.surge_zone THEN p.w_surge ELSE 0

pair_cost(driver, order, p) ==
    time_cost(driver, order, p)
  + driver_cost(driver, p)
  + rating_penalty(driver, order, p)
  + incentive_adj(driver, p)
  + fairness_penalty(driver, p)
  + surge_adjustment(order, p)
  + break_penalty(driver)

GatedCost(driver, order, p) ==
  IF ~InShift(driver, p.current_time)
  THEN Sentinel
  ELSE pair_cost(driver, order, p)

DriverIds == 1..Len(drivers)

OrderIds == 1..Len(orders)

Pairs == DriverIds \X OrderIds

CostTable == [pr \in Pairs |-> GatedCost(drivers[pr[1]], orders[pr[2]], params)]

(***************************************************************************)
(* The assignment problem handed to the solver: binary x[d, o], every      *)
(* order in exactly one pair, every driver in at most driver_capacity      *)
(* pairs, minimum total cost.                                              *)
(***************************************************************************)
\* OrderConstraint as "at most one driver".
OrderConstraintAtMostOne(xx) ==
  \A o \in OrderIds :
    SumTo(Len(drivers), [d \in DriverIds |-> xx[<<d, o>>]]) <= 1

OrderConstraint(xx) ==
  \A o \in OrderIds :
    SumTo(Len(drivers), [d \in DriverIds |-> xx[<<d, o>>]]) = 1

DriverConstraint(xx, cap) ==
  \A d \in DriverIds :
    SumTo(Len(orders), [o \in OrderIds |-> xx[<<d, o>>]]) <= cap

Objective(xx, c) ==
  SumTo(Len(drivers),
        [d \in DriverIds |->
           SumTo(Len(orders), [o \in OrderIds |-> c[<<d, o>>] * xx[<<d, o>>]])])

Feasible(cap) ==
  {xx \in [Pairs -> {0, 1}] : OrderConstraint(xx) /\ DriverConstraint(xx, cap)}

Optimal(c, cap) ==
  LET F == Feasible(cap)
      obj == [xx \in F |-> Objective(xx, c)]
  IN {xx \in F : \A yy \in F : obj[xx] <= obj[yy]}

(***************************************************************************)
(* model.solve.  The solver is an external program.  On a problem that has *)
(* a solution it leaves an optimal one in x; which of several optimal ones *)
(* is its own choice.  On a problem without solution it reports the status *)
(* Infeasible, which assign_drivers_to_orders never reads, and leaves      *)
(* values in x that satisfy no constraint in particular: any of them may   *)
(* test equal to 1 or not.  Solving the very same problem a second time    *)
(* repeats the first outcome (a single-threaded run with default options). *)
(***************************************************************************)
NoPrev == [driver |-> 0, costs |-> <<>>, x |-> <<>>, results |-> <<>>]

SolverOutcomes(c, cap) ==
  IF prev # NoPrev /\ prev.costs = c
  THEN {prev.x}
  ELSE LET best == Optimal(c, cap)
       IN IF best # {}              \* the problem has a solution
          THEN best
          ELSE [Pairs -> {0, 1}]

(***************************************************************************)
(* The result list: drivers in input order, orders in input order within   *)
(* a driver, one triple for every x[d, o] that equals 1.                   *)
(***************************************************************************)
RECURSIVE CollectFrom(_, _, _)
CollectFrom(k, xx, c) ==
  IF k > Len(drivers) * Len(orders) THEN <<>>
  ELSE LET d == ((k - 1) \div Len(orders)) + 1
           o == ((k - 1) % Len(orders)) + 1
       IN (IF xx[<<d, o>>] = 1 THEN << <<d, o, c[<<d, o>>]>> >> ELSE <<>>)
          \o CollectFrom(k + 1, xx, c)

CollectResults(xx, c) == CollectFrom(1, xx, c)

(***************************************************************************)
(* Inputs.                                                                 *)
(***************************************************************************)
SeqsUpTo(S, n) == UNION {[1..k -> S] : k \in 0..n}

DriverRecords(Locs, Ratings, Factors, Progress, Starts, Breaks) ==
  {[loc_lat |-> l, rating |-> r, cost_factor |-> f, incentive_progress |-> i,
    shift_start |-> s, shift_end |-> s + ShiftLength,
    next_break_in_minutes |-> b] :
      l \in Locs, r \in Ratings, f \in Factors, i \in Progress,
      s \in Starts, b \in Breaks}

OrderRecords(Locs, Priorities, Surges) ==
  [loc_lat : Locs, priority : Priorities, surge_zone : Surges]

ParamRecords(Traffic, Times, WTime, WCost, WRating, WIncentive, WFairness, WSurge) ==
  [traffic_level : Traffic, current_time : Times, w_time : WTime,
   w_cost : WCost, w_rating : WRating, w_incentive : WIncentive,
   w_fairness : WFairness, w_surge : WSurge]

InitWith(DriverSet, OrderSet, ParamSet, CapSet, nd, no) ==
  /\ drivers \in SeqsUpTo(DriverSet, nd)
  /\ orders \in SeqsUpTo(OrderSet, no)
  /\ params \in ParamSet
  /\ driver_capacity \in CapSet
  /\ costs = <<>>
  /\ x = <<>>
  /\ assignment_results = <<>>
  /\ pc = "start"
  /\ prev = NoPrev

(***************************************************************************)
(* Solver runs: up to MaxDrivers drivers, in or out of their shift at      *)
(* hour 10, and up to MaxOrders orders at three places, one in a surge     *)
(* zone; capacities from 0 to MaxCap.                                      *)
(***************************************************************************)
SolverDrivers == DriverRecords({0, 2}, {4}, {1}, {0}, {8, 13}, {30})

SolverOrders ==
  OrderRecords({0, 2}, {"normal"}, {FALSE}) \cup OrderRecords({1}, {"vip"}, {TRUE})

SolverParams == ParamRecords({1}, {10}, {1}, {1}, {1}, {-1}, {1}, {-2})

Init ==
  InitWith(SolverDrivers, SolverOrders, SolverParams, 0..MaxCap,
           MaxDrivers, MaxOrders)

(***************************************************************************)
(* The two steps of a run.                                                 *)
(***************************************************************************)
ComputePairwiseCost ==
  /\ pc = "start"
  /\ costs' = CostTable
  /\ pc' = "costed"
  /\ UNCHANGED <<drivers, orders, params, driver_capacity, x,
                 assignment_results, prev>>

AssignDriversToOrders ==
  /\ pc = "costed"
  /\ \E sol \in SolverOutcomes(costs, driver_capacity) :
       /\ x' = sol
       /\ assignment_results' = CollectResults(sol, costs)
  /\ pc' = "done"
  /\ UNCHANGED <<drivers, orders, params, driver_capacity, costs, prev>>

Next == ComputePairwiseCost \/ AssignDriversToOrders

Spec == Init /\ [][Next]_vars

(***************************************************************************)
(* Solver runs whose orders fit the drivers' total capacity.               *)
(***************************************************************************)
OrdersFit == Len(orders) <= Len(drivers) * driver_capacity

InitFit == Init /\ OrdersFit

SpecFit == InitFit /\ [][Next]_vars

(***************************************************************************)
(* Cost-model runs: one driver and one order, their attributes over the    *)
(* simulator's ranges (rating 3..5, cost factor 1..2, progress 0..9,       *)
(* shifts of nine hours starting 8..13, breaks 0..59, any two places of    *)
(* the city box at most MaxDistKm apart), the hour and the weights over    *)
(* the sliders' ranges, the function's default capacity.                   *)
(***************************************************************************)
CostDrivers == DriverRecords({0}, {3, 5}, {1, 2}, {4, 7, 8, 9}, {8, 13}, {9, 10})

CostOrders == OrderRecords({0, MaxDistKm}, {"normal", "vip", "high_value"}, BOOLEAN)

CostParams ==
       ParamRecords({1, 3}, {7, 8, 17, 22, 23}, {5}, {5}, {5}, {2}, {3}, {0})
  \cup ParamRecords({1, 3}, {7, 8, 17, 22, 23}, {0, 1}, {0, 1}, {1}, {-2, -1}, {1}, {-5, -2})

InitCost == InitWith(CostDrivers, CostOrders, CostParams, {DefaultCapacity}, 1, 1)

SpecCost == InitCost /\ [][Next]_vars

(***************************************************************************)
(* Two runs in a row, as app.py reruns main: after the first, one driver's *)
(* cost_factor is raised and everything else kept.  Capacities from -1.    *)
(***************************************************************************)
RerunParams == ParamRecords({1}, {10}, {1}, {0, 1}, {1}, {-1}, {1}, {-2})

InitRerun ==
  InitWith(SolverDrivers, SolverOrders, RerunParams, -1..MaxCap,
           MaxDrivers, MaxOrders)

RaiseCostFactor(d) ==
  /\ pc = "done"
  /\ prev = NoPrev
  /\ drivers' = [drivers EXCEPT ![d].cost_factor = @ + 1]
  /\ prev' = [driver |-> d, costs |-> costs, x |-> x,
              results |-> assignment_results]
  /\ costs' = <<>>
  /\ x' = <<>>
  /\ assignment_results' = <<>>
  /\ pc' = "start"
  /\ UNCHANGED <<orders, params, driver_capacity>>

NextRerun ==
  \/ ComputePairwiseCost
  \/ AssignDriversToOrders
  \/ \E d \in DriverIds : RaiseCostFactor(d)

SpecRerun == InitRerun /\ [][NextRerun]_vars

(***************************************************************************)
(* Vocabulary of the properties.                                           *)
(***************************************************************************)
Done == pc = "done"

Costed == pc # "start"

ResultIndex == 1..Len(assignment_results)

TriplesOfDriver(res, d) == Cardinality({i \in 1..Len(res) : res[i][1] = d})

TriplesOfOrder(res, o) == Cardinality({i \in 1..Len(res) : res[i][2] = o})

TotalCost(res) == SumTo(Len(res), [i \in 1..Len(res) |-> res[i][3]])

InWindow(d) ==
  /\ drivers[d].shift_start <= params.current_time
  /\ params.current_time <= drivers[d].shift_end

HasFeasibleDriver(o) == \E d \in DriverIds : costs[<<d, o>>] # Sentinel

\* Every assignment that respects the capacity and covers each coverable
\* order exactly once and no other order.
ConstrainedAssignments ==
  {a \in [Pairs -> {0, 1}] :
     /\ \A d \in DriverIds :
          SumTo(Len(orders), [o \in OrderIds |-> a[<<d, o>>]]) <= driver_capacity
     /\ \A o \in OrderIds :
          SumTo(Len(drivers), [d \in DriverIds |-> a[<<d, o>>]])
            = (IF HasFeasibleDriver(o) THEN 1 ELSE 0)}

(***************************************************************************)
(* C1.  Optimality: the total cost of the returned triples is at most the  *)
(* total cost of every assignment that satisfies the capacity constraint   *)
(* and covers each coverable order exactly once.                           *)
(***************************************************************************)
OptimalAmongConstrained ==
  Done => \A a \in ConstrainedAssignments :
            TotalCost(assignment_results) <= Objective(a, costs)

\* The same, for runs in which every order has a feasible driver.
OptimalWhenAllCoverable ==
  (Done /\ \A o \in OrderIds : HasFeasibleDriver(o)) =>
    \A a \in ConstrainedAssignments :
      TotalCost(assignment_results) <= Objective(a, costs)

(***************************************************************************)
(* C2.  Capacity: in any returned result, also when the orders outnumber   *)
(* drivers x driver_capacity, no driver is in more than driver_capacity    *)
(* triples.                                                                *)
(***************************************************************************)
CapacityInvariant ==
  Done => \A d \in DriverIds :
            TriplesOfDriver(assignment_results, d) <= driver_capacity

\* The same, for runs whose orders fit the total capacity.
CapacityWhenOrdersFit ==
  (Done /\ OrdersFit) =>
    \A d \in DriverIds :
      TriplesOfDriver(assignment_results, d) <= driver_capacity

UncoverableNeverAssigned ==
  Done => \A o \in OrderIds :
            (\A d \in DriverIds : costs[<<d, o>>] = Sentinel)
              => TriplesOfOrder(assignment_results, o) = 0

(***************************************************************************)
(* C5.  Availability gate: a driver whose shift does not contain the       *)
(* current hour has the sentinel in every entry, whatever the weights and  *)
(* attributes; a driver whose shift contains it, bounds included, has the  *)
(* computed pair cost in every entry.                                      *)
(***************************************************************************)
AvailabilityGate ==
  Costed => \A pr \in Pairs :
              /\ ~InWindow(pr[1]) => costs[pr] = Sentinel
              /\ InWindow(pr[1]) =>
                   costs[pr] = pair_cost(drivers[pr[1]], orders[pr[2]], params)

\* A driver past the end of the shift, gated under the largest weights; the
\* assignment has run.
GateWitness ==
  /\ Done
  /\ \E pr \in Pairs :
       /\ params.current_time > drivers[pr[1]].shift_end
       /\ params.w_time = 5
       /\ drivers[pr[1]].next_break_in_minutes < 10
       /\ costs[pr] = Sentinel

(***************************************************************************)
(* C6.  The sentinel is strictly larger than the cost of every pair whose  *)
(* driver is inside the shift, over the admissible weights, traffic        *)
(* levels, distances and attributes.                                       *)
(***************************************************************************)
SentinelAboveFeasible ==
  Costed => \A pr \in Pairs : InWindow(pr[1]) => costs[pr] < Sentinel

\* The costliest pair: largest weights, traffic and distance, a low rating
\* on a vip order, an imminent break.
SentinelWitness ==
  /\ Costed
  /\ \E pr \in Pairs :
       /\ InWindow(pr[1])
       /\ params.w_time = 5 /\ params.traffic_level = 3
       /\ Abs(drivers[pr[1]].loc_lat - orders[pr[2]].loc_lat) = MaxDistKm
       /\ drivers[pr[1]].next_break_in_minutes < 10
       /\ costs[pr] > 300

(***************************************************************************)
(* C7.  With driver_capacity <= 0 the returned result is empty.            *)
(***************************************************************************)
NonPositiveCapacityEmpty ==
  (Done /\ driver_capacity <= 0) => assignment_results = <<>>

(***************************************************************************)
(* C8.  Monotonicity: after one driver's cost_factor is raised and the     *)
(* run repeated, that driver has no more triples than before and the       *)
(* total cost of the result is no smaller than before.                     *)
(***************************************************************************)
MonotoneInCostFactor ==
  (Done /\ prev # NoPrev) =>
    /\ TriplesOfDriver(assignment_results, prev.driver)
         <= TriplesOfDriver(prev.results, prev.driver)
    /\ TotalCost(assignment_results) >= TotalCost(prev.results)

\* The same, for runs whose orders fit the total capacity.
MonotoneWhenOrdersFit ==
  (Done /\ prev # NoPrev /\ OrdersFit) =>
    /\ TriplesOfDriver(assignment_results, prev.driver)
         <= TriplesOfDriver(prev.results, prev.driver)
    /\ TotalCost(assignment_results) >= TotalCost(prev.results)

====
